---- MODULE Spec2Model ----
(***************************************************************************)
(* ZipAct experiment harness: the agents' thought/action parser, the       *)
(* ZipActAgent state record and its update, the step limit of BaseAgent,   *)
(* and the episode loop of run.py.                                         *)
(*                                                                         *)
(* Text is modelled as a sequence of tokens.  A token is a maximal piece   *)
(* of a Python string that the code treats as a unit: the literal prefixes *)
(* "Thought:" and "Action:", a run of blanks " ", a newline "\n", and      *)
(* words.  A Python str value is a sequence of such tokens; "" is << >>.   *)
(***************************************************************************)
EXTENDS Integers, Sequences, FiniteSets, TLC

VARIABLES
    \* ---- one call of _parse_thought_action (SpecParse) ----
    p_agent,        \* agent class whose parser is called ("" before the call)
    p_env,          \* self.environment of that agent
    p_text,         \* the response text handed to the parser
    p_thought,      \* returned thought
    p_action,       \* returned action
    p_done,         \* TRUE once the parser has returned
    \* ---- a ZipActAgent (Spec) ----
    max_steps,      \* self.max_steps
    current_step,   \* self.current_step
    last_thought,   \* self.last_thought
    last_action,    \* self.last_action: [none |-> BOOLEAN, s |-> str]
    state,          \* self.state, a JSON value
    z_pc,           \* "new" (constructed), "ready" (reset returned), "crashed"
                    \* (an exception left the call: no caller catches it)
    z_exc,          \* exception raised by the last call, "none" if it returned
    z_returned,     \* number of step calls since reset that returned an action
    z_calls,        \* what the last call did: llm calls made and their results
    z_prior,        \* non-empty actions returned by the steps before the last one
    z_obs,          \* the observation handed to the last step call
    z_msgs,         \* the messages of the llm calls of the last call, in order
    \* ---- run.py: main and run_episode (SpecRun) ----
    r_pc,           \* position in main / run_episode
    r_args_max_steps,\* args.max_steps
    r_agent_kind,   \* args.agent
    r_agent_max,    \* agent.max_steps as constructed by get_agent
    r_agent_step,   \* agent.current_step
    r_step,         \* loop variable `step` of run_episode (-1: unbound)
    r_done,         \* `done` of the last env.step
    r_reward,       \* reward of the last env.step
    r_success,      \* local `success`
    r_total,        \* local `total_reward`
    r_result,       \* value returned by run_episode: [ret |-> BOOLEAN, ...]
    r_logged,       \* number of episodes handed to logger.end_episode
    r_exc,          \* exception that escaped run_episode, "none" otherwise
    r_episodes,     \* args.episodes
    r_episode,      \* loop variable `i` of main: episodes started so far
    \* ---- one call of ZipActAgent._parse_json (SpecJson) ----
    j_doc,          \* the JSON object the response text carries
    j_text,         \* the response text handed to _parse_json
    j_result,       \* what _parse_json returned: [ok, v]
    j_done,         \* TRUE once _parse_json has returned
    \* ---- a ReAct, Reflexion, ObservationMasking or Summary agent (SpecHist) ----
    h_kind,         \* the agent class
    h_max,          \* self.max_steps
    h_step,         \* self.current_step
    h_pc,           \* "new", "ready", "crashed" (StopIteration left step)
    h_instruction,  \* self.instruction
    h_last_thought, \* self.last_thought
    h_history,      \* self.history (ReAct, Reflexion, Summary)
    h_observations, \* self.observations (ObservationMasking)
    h_thoughts,     \* self.thoughts (ObservationMasking)
    h_actions,      \* self.actions (ObservationMasking)
    h_keep,         \* self.keep_recent (ObservationMasking)
    h_interval,     \* self.summary_interval (Summary)
    h_summary,      \* self.summary (Summary)
    h_reflections,  \* self.reflections (Reflexion)
    h_episode_count,\* self.episode_count (Reflexion)
    h_op,           \* the last call: "reset", "step", "step_limit", "reflect"
    h_calls,        \* the llm calls the last call made, in order
    h_prompt,       \* the user prompt of the last step's decision call
    h_seen,         \* observation, thought and action of each step since reset
    h_sumsteps,     \* the steps since reset in which _summarize_history ran
    l_pc,           \* main and run_episode: "main", "loop", "return", "crashed"
    l_runner,       \* the script: "run", "run_alfworld", "run_experiment"
    l_agent,        \* args.agent
    l_args_max_steps, \* args.max_steps
    l_episodes,     \* args.episodes
    l_episode,      \* the number of run_episode calls so far
    l_step,         \* run_episode's loop variable `step` (-1: unbound)
    l_agent_step,   \* agent.current_step
    l_hist_len,     \* len(agent.history) of a SummaryAgent
    l_success,      \* run_episode's local `success`
    l_exc,          \* the exception that left main
    counters,       \* llm.total_input_tokens, total_output_tokens, call_count
    current_episode, \* logger.current_episode
    log_file,       \* the lines of logger.log_file, in order
    l_ok,           \* per run_episode call: the llm calls that succeeded since
    l_step_calls,   \* per run_episode call: the agent.step calls made
    l_reflections,  \* len(agent.reflections) of a ReflexionAgent
    e_max_steps,    \* ALFWorldSimpleEnv: self.max_steps
    e_task_locations, \* the class attribute TASK_DATA["locations"]
    e_locations,    \* self.locations, and whether it is the class's own dict
    e_current_location, \* self.current_location ("" for None)
    e_inventory,    \* self.inventory
    e_heated_objects, \* self.heated_objects
    e_cooled_objects, \* self.cooled_objects
    e_cleaned_objects, \* self.cleaned_objects
    e_open_receptacles, \* self.open_receptacles
    e_step_count,   \* self.step_count
    e_done,         \* self.done
    e_success,      \* self.success
    e_op,           \* the last call: "reset" or "step"
    e_reward,       \* the reward the last step returned (1 for 1.0, 0 for 0.0)
    e_before        \* what the last reset found: steps made, world changed, success

pvars == <<p_agent, p_env, p_text, p_thought, p_action, p_done>>
zvars == <<max_steps, current_step, last_thought, last_action, state,
           z_pc, z_exc, z_returned, z_calls, z_prior, z_obs, z_msgs>>
rvars == <<r_pc, r_args_max_steps, r_agent_kind, r_agent_max, r_agent_step,
           r_step, r_done, r_reward, r_success, r_total, r_result, r_logged,
           r_exc, r_episodes, r_episode>>
jvars == <<j_doc, j_text, j_result, j_done>>
hvars == <<h_kind, h_max, h_step, h_pc, h_instruction, h_last_thought,
           h_history, h_observations, h_thoughts, h_actions, h_keep, h_interval,
           h_summary, h_reflections, h_episode_count, h_op, h_calls, h_prompt,
           h_seen, h_sumsteps>>
lvars == <<l_pc, l_runner, l_agent, l_args_max_steps, l_episodes, l_episode,
           l_step, l_agent_step, l_hist_len, l_success, l_exc, counters,
           current_episode, log_file, l_ok, l_step_calls, l_reflections>>
evars == <<e_max_steps, e_task_locations, e_locations, e_current_location,
           e_inventory, e_heated_objects, e_cooled_objects, e_cleaned_objects,
           e_open_receptacles, e_step_count, e_done, e_success, e_op, e_reward,
           e_before>>
vars == <<pvars, zvars, rvars, jvars, hvars, lvars, evars>>

-----------------------------------------------------------------------------
(* Bounds of the model *)

\* longest response text (in tokens) handed to the parser in SpecParse
MaxTextLen == 4

\* largest max_steps a ZipActAgent is constructed with in Spec
MaxSteps == 3

\* largest --max_steps and --episodes given on the command line in SpecRun
MaxArgSteps == 51
MaxEpisodes == 2

\* SpecHist: largest max_steps, keep_recent and summary_interval an agent is
\* constructed with, most reflections kept, most resets of a ReflexionAgent
MaxHistSteps == 4
MaxKeep == 2
MaxInterval == 2
MaxReflections == 4
MaxHistEpisodes == 2

\* largest --max_steps and --episodes of SpecLog, but for the one
\* configuration with --max_steps above DEFAULT_MAX_STEPS
MaxLogSteps == 3
MaxLogEpisodes == 2

\* largest max_steps of an ALFWorldSimpleEnv, and the most step calls made
\* between two resets
MaxEnvSteps == 6

-----------------------------------------------------------------------------
(* Python str helpers on token sequences *)

TH == "Thought:"
AC == "Action:"
SP == " "
NL == "\n"

\* tokens a response text is built from: the two prefixes, blank, newline,
\* a verb of the alfworld vocabulary only, one of the sciworld vocabulary
\* only, one of the webshop patterns, and a word of no vocabulary
Tokens == {TH, AC, SP, NL, "look", "pour", "back", "apple"}

\* tokens whose first / last character is a word character (for \b)
WordStart(tok) == tok \notin {SP, NL}
WordEnd(tok) == tok \notin {SP, NL, TH, AC}

Min(S) == CHOOSE x \in S : \A y \in S : x <= y
Max(S) == CHOOSE x \in S : \A y \in S : x >= y

\* str.strip(): drop leading and trailing whitespace
Strip(s) ==
    LET keep == {i \in 1..Len(s) : s[i] \notin {SP, NL}}
    IN  IF keep = {} THEN << >> ELSE SubSeq(s, Min(keep), Max(keep))

\* str.split('\n'): the pieces between newlines ('' splits to [''])
RECURSIVE Split(_)
Split(s) ==
    LET nls == {i \in 1..Len(s) : s[i] = NL}
    IN  IF nls = {} THEN <<s>>
        ELSE <<SubSeq(s, 1, Min(nls) - 1)>> \o Split(SubSeq(s, Min(nls) + 1, Len(s)))

\* str.startswith(prefix) for a one-token prefix
StartsWith(s, tok) == Len(s) >= 1 /\ s[1] = tok

\* str.replace(tok, ""): every occurrence is removed
RemoveAll(s, tok) == SelectSeq(s, LAMBDA x : x # tok)

-----------------------------------------------------------------------------
(* _parse_thought_action *)

Agents == {"zipact", "react", "reflexion", "obs_mask", "summary"}
Envs == {"alfworld", "sciworld", "webshop"}

\* the verb vocabularies of the three fallback patterns
AlfworldVerbs ==
    {"go to", "take", "put", "open", "close", "clean", "heat", "cool",
     "toggle", "use", "look", "inventory"}
SciworldVerbs ==
    {"look around", "go to", "pick up", "put down", "put", "pour", "open",
     "close", "activate", "deactivate", "focus on", "wait", "mix", "connect",
     "use", "read", "examine"}
WebshopWords == {"back"}

NoMatch == [found |-> FALSE, s |-> << >>]

\* the rest of the line of text that starts at position i (`.` stops at "\n")
LineFrom(text, i) ==
    LET nls == {j \in i..Len(text) : text[j] = NL}
    IN  SubSeq(text, i, IF nls = {} THEN Len(text) ELSE Min(nls) - 1)

\* re.search(r'\b(v1|v2|...)\b.+', text): the leftmost verb that stands as a
\* word of its own and is followed by at least one character on its line
SearchVerbs(text, verbs) ==
    LET hits == {i \in 1..Len(text) :
                    /\ text[i] \in verbs
                    /\ (i = 1 \/ ~WordEnd(text[i - 1]))
                    /\ i < Len(text)
                    /\ text[i + 1] # NL
                    /\ ~WordStart(text[i + 1])}
    IN  IF hits = {} THEN NoMatch
        ELSE [found |-> TRUE, s |-> LineFrom(text, Min(hits))]

\* re.search(r'(search\[.+?\]|click\[.+?\]|back)', text): no word boundary
\* and nothing required after it; the match is the word alone
SearchWebshop(text) ==
    LET hits == {i \in 1..Len(text) : text[i] \in WebshopWords}
    IN  IF hits = {} THEN NoMatch
        ELSE [found |-> TRUE, s |-> <<text[Min(hits)]>>]

\* the pattern each agent class applies: ZipActAgent and ReActAgent have one
\* pattern, the other three select it by self.environment
FallbackSearch(agent, env, text) ==
    IF agent \in {"zipact", "react"} THEN SearchVerbs(text, AlfworldVerbs)
    ELSE IF env = "webshop" THEN SearchWebshop(text)
    ELSE IF env = "sciworld" THEN SearchVerbs(text, SciworldVerbs)
    ELSE SearchVerbs(text, AlfworldVerbs)

\* thought = "" ; action = "look"
DefaultThought == << >>
DefaultAction == <<"look">>

\* the for loop over the lines: a "Thought:" line sets thought, otherwise an
\* "Action:" line sets action; later lines overwrite earlier ones
RECURSIVE ScanLines(_, _, _)
ScanLines(lines, thought, action) ==
    IF lines = << >> THEN [thought |-> thought, action |-> action]
    ELSE LET line == Strip(Head(lines))
         IN  IF StartsWith(line, TH)
                 THEN ScanLines(Tail(lines), Strip(RemoveAll(line, TH)), action)
             ELSE IF StartsWith(line, AC)
                 THEN ScanLines(Tail(lines), thought, Strip(RemoveAll(line, AC)))
             ELSE ScanLines(Tail(lines), thought, action)

\* whether the fallback branch is taken: `if not thought and not action`
FallbackGuard(thought, action) == thought = << >> /\ action = << >>

ParseThoughtAction(agent, env, text) ==
    LET scanned == ScanLines(Split(Strip(text)), DefaultThought, DefaultAction)
    IN  IF FallbackGuard(scanned.thought, scanned.action)
            THEN LET m == FallbackSearch(agent, env, text)
                 IN  [thought |-> Strip(text),
                      action |-> IF m.found THEN Strip(m.s) ELSE scanned.action]
        ELSE scanned

-----------------------------------------------------------------------------
(* SpecParse: one call of an agent's parser on a bounded response text *)

RECURSIVE SeqsUpTo(_, _)
SeqsUpTo(S, n) ==
    IF n = 0 THEN {<< >>}
    ELSE LET shorter == SeqsUpTo(S, n - 1)
         IN  shorter \cup {Append(s, x) : s \in shorter, x \in S}

Texts == SeqsUpTo(Tokens, MaxTextLen)

ParseInit ==
    /\ p_agent = ""
    /\ p_env = ""
    /\ p_text = << >>
    /\ p_thought = << >>
    /\ p_action = << >>
    /\ p_done = FALSE

ParseCall ==
    /\ ~p_done
    /\ \E a \in Agents, e \in Envs, t \in Texts :
        LET r == ParseThoughtAction(a, e, t)
        IN  /\ p_agent' = a
            /\ p_env' = e
            /\ p_text' = t
            /\ p_thought' = r.thought
            /\ p_action' = r.action
            /\ p_done' = TRUE

-----------------------------------------------------------------------------
(* JSON values of the ZipAct state record                                  *)
(*                                                                         *)
(* A JSON document is a record [t, goal, world, cs]: t is the type of the  *)
(* top-level value; for a "dict" the three groups say whether the key is   *)
(* absent, holds a dict, or holds a value of another type ("other").       *)
(*   goal  = [t, gi, v]   gi: global_instruction ("" when unset)           *)
(*                        v : the rest of the group (queue, objective)     *)
(*   world = [t, v]       v : location, inventory, entity map, objects     *)
(*   cs    = [t, aa, v]   aa: attempted_actions = [t, items]               *)
(*                        v : negative_constraints and visited_locations   *)
(***************************************************************************)

NoAA == [t |-> "absent", items |-> << >>]
ListAA(items) == [t |-> "list", items |-> items]
OtherAA == [t |-> "other", items |-> << >>]

NoGoal == [t |-> "absent", gi |-> << >>, v |-> ""]
NoWorld == [t |-> "absent", v |-> ""]
NoCS == [t |-> "absent", aa |-> NoAA, v |-> ""]
OtherGoal == [t |-> "other", gi |-> << >>, v |-> ""]
OtherCS == [t |-> "other", aa |-> NoAA, v |-> ""]

Dict(g, w, c) == [t |-> "dict", goal |-> g, world |-> w, cs |-> c]
NonDict(t) == [t |-> t, goal |-> NoGoal, world |-> NoWorld, cs |-> NoCS]

\* _get_empty_state()
GetEmptyState ==
    Dict([t |-> "dict", gi |-> << >>, v |-> "empty"],
         [t |-> "dict", v |-> "unknown"],
         [t |-> "dict", aa |-> ListAA(<< >>), v |-> "empty"])

\* Python truth value of a JSON value: {} , [] , "" , 0 and None are false
Truthy(j) ==
    CASE j.t = "dict" -> ~(j.goal.t = "absent" /\ j.world.t = "absent"
                           /\ j.cs.t = "absent")
      [] j.t \in {"list", "num"} -> TRUE     \* a non-empty list, a non-zero number
      [] OTHER -> FALSE                      \* null

\* the task instruction handed to reset
Instruction == <<"task">>

\* the JSON documents the model may answer with (initialisation or update)
ModelGoals ==
    {[t |-> "dict", gi |-> Instruction, v |-> "g1"],
     [t |-> "dict", gi |-> << >>, v |-> "g2"]}
ModelWorlds == {[t |-> "dict", v |-> "w1"]}
ModelAAs ==
    {ListAA(<< >>), ListAA(<< <<"look">>, <<"look">> >>), ListAA(<< <<"apple">> >>),
     NoAA, OtherAA}
JVals ==
    {Dict(g, w, [t |-> "dict", aa |-> a, v |-> "c1"]) :
        g \in ModelGoals, w \in ModelWorlds, a \in ModelAAs}
    \cup {Dict(g, w, c) : g \in ModelGoals, w \in ModelWorlds, c \in {NoCS, OtherCS}}
    \cup {Dict(g, NoWorld, [t |-> "dict", aa |-> ListAA(<< >>), v |-> "c1"]) :
            g \in {NoGoal, OtherGoal}}
    \cup {Dict(NoGoal, NoWorld, NoCS), NonDict("list"), NonDict("num"), NonDict("null")}

-----------------------------------------------------------------------------
(* _parse_json *)

\* A response text that is to hold JSON is a sequence of chunks: the fence
\* markers "```json" and "```", whitespace, prose that is no JSON, and a
\* serialised JSON document j, written with a trailing comma before a
\* closing brace or bracket when tc is TRUE.
JNone == NonDict("none")
FenceJson == [k |-> "fence_json", j |-> JNone, tc |-> FALSE]
Fence == [k |-> "fence", j |-> JNone, tc |-> FALSE]
Ws == [k |-> "ws", j |-> JNone, tc |-> FALSE]
Prose == [k |-> "prose", j |-> JNone, tc |-> FALSE]
Json(j, tc) == [k |-> "json", j |-> j, tc |-> tc]

\* text.split(sep)[1] for a marker chunk: what lies between the first
\* occurrence of a marker of `seps` and the next one (or the end)
AfterFirst(text, seps) ==
    LET at == {i \in 1..Len(text) : text[i].k \in seps}
        first == Min(at)
        later == {i \in at : i > first}
    IN  SubSeq(text, first + 1, IF later = {} THEN Len(text) ELSE Min(later) - 1)

\* text.split("```")[0]: what lies before the first "```"
BeforeFirst(text, seps) ==
    LET at == {i \in 1..Len(text) : text[i].k \in seps}
    IN  IF at = {} THEN text ELSE SubSeq(text, 1, Min(at) - 1)

\* str.strip() on chunks
StripWs(text) ==
    LET keep == {i \in 1..Len(text) : text[i].k # "ws"}
    IN  IF keep = {} THEN << >> ELSE SubSeq(text, Min(keep), Max(keep))

\* the block of text handed on: inside ```json fences, else inside ```
\* fences, else the whole text; trimmed
ExtractBlock(text) ==
    IF \E i \in 1..Len(text) : text[i].k = "fence_json"
        THEN StripWs(BeforeFirst(AfterFirst(text, {"fence_json"}), {"fence"}))
    ELSE IF \E i \in 1..Len(text) : text[i].k = "fence"
        THEN StripWs(BeforeFirst(AfterFirst(text, {"fence"}), {"fence"}))
    ELSE StripWs(text)

\* a block handed to json.loads as it is
KeepTrailingCommas(block) == block

\* re.sub(r',(\s*[}\]])', r'\1', json_str): trailing commas are dropped
DropTrailingCommas(block) ==
    [i \in 1..Len(block) |-> [block[i] EXCEPT !.tc = FALSE]]

\* json.loads: one well-formed document, nothing else
JsonLoads(block) ==
    IF Len(block) = 1 /\ block[1].k = "json" /\ ~block[1].tc
        THEN [ok |-> TRUE, v |-> block[1].j]
    ELSE [ok |-> FALSE, v |-> JNone]

\* _parse_json that falls back to the empty template instead of `default`
ParseJsonIgnoringDefault(text, default) ==
    LET r == JsonLoads(DropTrailingCommas(ExtractBlock(text)))
    IN  IF r.ok THEN r ELSE [ok |-> FALSE, v |-> GetEmptyState]

\* _parse_json(text, default): the parsed value, or default on any exception
ParseJson(text, default) ==
    LET r == JsonLoads(DropTrailingCommas(ExtractBlock(text)))
    IN  IF r.ok THEN r ELSE [ok |-> FALSE, v |-> default]

\* the JSON objects among the documents
JObjects == {j \in JVals : j.t = "dict"}

\* the ways a response carries the object j: alone, with blanks around it,
\* inside ```json fences (with and without text around them), inside plain
\* ``` fences with text around them; with a comma before the closing brace
\* or without
Wrappings(j) ==
    UNION {{<<Json(j, tc)>>,
            <<Ws, Json(j, tc), Ws>>,
            <<FenceJson, Ws, Json(j, tc), Ws, Fence>>,
            <<Prose, Ws, FenceJson, Json(j, tc), Fence, Ws, Prose>>,
            <<Prose, Ws, Fence, Ws, Json(j, tc), Ws, Fence, Ws, Prose>>,
            <<Fence, Json(j, tc), Fence, Prose>>} : tc \in BOOLEAN}

\* before the call: the object the response is to carry
JsonInit ==
    /\ j_doc \in JObjects
    /\ j_text = << >>
    /\ j_result = [ok |-> FALSE, v |-> JNone]
    /\ j_done = FALSE

\* _parse_json(text, default=self.state) on one wrapping of the object
JsonParseCall ==
    /\ ~j_done
    /\ \E text \in Wrappings(j_doc) :
        /\ j_text' = text
        /\ j_result' = ParseJson(text, GetEmptyState)
    /\ j_done' = TRUE
    /\ UNCHANGED j_doc

-----------------------------------------------------------------------------
(* ZipActAgent *)

\* self.last_action: None after reset, then the action of the last step
NoAction == [none |-> TRUE, s |-> << >>]
SomeAction(a) == [none |-> FALSE, s |-> a]

\* one self.llm.chat call of the last agent call: failed when the remote call
\* raised (chat then returns ""), parsed when json.loads accepted the answer
Call(role, failed, parsed) == [role |-> role, failed |-> failed, parsed |-> parsed]

\* an outcome of a piece of agent code: the state it leaves and the
\* exception it raised ("none" when it ran to its end)
Outcome(st, exc) == [state |-> st, exc |-> exc]

\* state.get("constraint_state", {}).get("attempted_actions", []) of a dict
AttemptedActions(st) ==
    IF st.t = "dict" /\ st.cs.t = "dict" /\ st.cs.aa.t = "list"
        THEN st.cs.aa.items
    ELSE << >>

InSeq(x, seq) == \E i \in 1..Len(seq) : seq[i] = x

\* `if a not in lst: lst.append(a)`
AppendIfNew(items, a) == IF InSeq(a, items) THEN items ELSE Append(items, a)

\* _update_state, lines 131-138: the code-level tracking of last_action
TrackAttempted(st, la) ==
    IF la.s = << >> THEN Outcome(st, "none")                 \* `if self.last_action:`
    ELSE IF st.t # "dict" THEN Outcome(st, "TypeError")      \* no item assignment
    ELSE LET c1 == IF st.cs.t = "absent"
                       THEN [t |-> "dict", aa |-> ListAA(<< >>), v |-> "empty"]
                   ELSE st.cs
         IN  IF c1.t # "dict" THEN Outcome(st, "TypeError")
             ELSE LET a1 == IF c1.aa.t = "absent" THEN ListAA(<< >>) ELSE c1.aa
                      st1 == [st EXCEPT !.cs = [c1 EXCEPT !.aa = a1]]
                  IN  IF a1.t # "list" THEN Outcome(st1, "TypeError")
                      ELSE Outcome([st1 EXCEPT !.cs.aa.items = AppendIfNew(@, la.s)],
                                   "none")

\* _update_state, lines 162-166: take over the parsed state, keeping the
\* attempted_actions of the code-level tracking
AdoptState(st, new_state) ==
    IF ~Truthy(new_state) THEN Outcome(st, "none")           \* `if new_state:`
    ELSE IF new_state.t = "num" THEN Outcome(st, "TypeError") \* `in` on a number
    ELSE IF new_state.t = "dict" /\ new_state.cs.t # "absent"
        THEN IF st.t # "dict" \/ st.cs.t = "other"
                 THEN Outcome(st, "AttributeError")          \* .get on a non-dict
             ELSE IF new_state.cs.t # "dict"
                 THEN Outcome(st, "TypeError")               \* no item assignment
             ELSE LET kept == IF st.cs.t = "absent" \/ st.cs.aa.t = "absent"
                                  THEN ListAA(<< >>)
                              ELSE st.cs.aa
                  IN  Outcome([new_state EXCEPT !.cs.aa = kept], "none")
    ELSE Outcome(new_state, "none")

\* _update_state(observation) with the updater's answer `text`
UpdateState(st, la, text) ==
    LET tracked == TrackAttempted(st, la)
        parsed == ParseJson(text, tracked.state)
    IN  IF tracked.exc # "none" THEN tracked ELSE AdoptState(tracked.state, parsed.v)

\* reset, lines 73-78: the parsed initial state with global_instruction set
InitState(text, instruction) ==
    LET st == ParseJson(text, GetEmptyState).v
    IN  IF st.t # "dict" THEN Outcome(st, "AttributeError")
        ELSE IF st.goal.t = "other" THEN Outcome(st, "AttributeError")
        ELSE IF st.goal.t = "absent" THEN Outcome(st, "KeyError")
        ELSE IF st.goal.gi = << >>
            THEN Outcome([st EXCEPT !.goal.gi = instruction], "none")
        ELSE Outcome(st, "none")

\* two of the documents, used to vary the wrapping of an answer
Wrapped ==
    {Dict([t |-> "dict", gi |-> Instruction, v |-> "g1"], [t |-> "dict", v |-> "w1"],
          [t |-> "dict", aa |-> ListAA(<< <<"apple">> >>), v |-> "c1"]),
     Dict([t |-> "dict", gi |-> << >>, v |-> "g2"], [t |-> "dict", v |-> "w1"], NoCS)}

\* answers of the model to the initialisation and updater prompts: nothing,
\* prose, every document bare, and two of them with a trailing comma, inside
\* ```json fences, inside plain fences with text around, after leading prose
JsonTexts ==
    {<< >>, <<Prose>>, <<FenceJson, Ws, Prose, Fence>>}
    \cup {<<Json(j, FALSE)>> : j \in JVals}
    \cup {<<Json(j, TRUE)>> : j \in Wrapped}
    \cup {<<FenceJson, Ws, Json(j, FALSE), Ws, Fence>> : j \in Wrapped}
    \cup {<<Prose, Fence, Json(j, TRUE), Fence, Prose>> : j \in Wrapped}
    \cup {<<Prose, Ws, Json(j, FALSE)>> : j \in Wrapped}

\* answers of the model to the actor prompt
ActorTexts ==
    {<< >>,
     <<"apple">>,
     <<TH, SP, "apple", NL, AC, SP, "look">>,
     <<TH, SP, "apple", NL, AC, SP, "pour">>,
     <<TH, SP, "apple", NL, AC>>}

\* self.environment of the ZipActAgent of Spec
ZipEnvironment == "alfworld"

\* _act(observation) with the actor's answer `text`
Act(text) == ParseThoughtAction("zipact", ZipEnvironment, text)

\* is_step_limit_reached()
IsStepLimitReached(cur, max) == cur >= max

\* observations an environment hands to step
NoObs == ""
Observations == {"o1", "o2"}

\* the observation of every step in Spec, where no claim reads it
OneObservation == {"o1"}

\* answers of the model in SpecAct: to the initialisation and updater prompts
\* nothing, prose, and three documents, one of them fenced; to the actor
\* prompt nothing and a well-formed answer
ActJsonTexts ==
    {<< >>, <<Prose>>, <<Json(Dict(NoGoal, NoWorld, NoCS), FALSE)>>}
    \cup {<<Json(j, FALSE)>> : j \in Wrapped}
    \cup {<<FenceJson, Ws, Json(j, TRUE), Ws, Fence>> : j \in Wrapped}
ActActorTexts == {<< >>, <<TH, SP, "apple", NL, AC, SP, "pour">>}

\* messages of reset's call: the init prompt formatted with the instruction
InitMessages(instruction) ==
    [role |-> "init", system |-> "init_system", instruction |-> instruction]

\* messages of _update_state's call: the updater prompt, and the state (after
\* the code-level tracking), the last action and the new observation
UpdaterMessages(st, la, observation) ==
    [role |-> "updater", system |-> "updater_prompt", state |-> st,
     last_action |-> la, observation |-> observation]

\* _act that also sends the action and thought of the step before
ActorMessagesWithLastStep(st, observation) ==
    [role |-> "actor", system |-> "actor_prompt", state |-> st,
     observation |-> observation, last_action |-> last_action,
     last_thought |-> last_thought]

\* messages of _act's call: the actor prompt, and json.dumps(self.state) and
\* the observation
ActorMessages(st, observation) ==
    [role |-> "actor", system |-> "actor_prompt", state |-> st,
     observation |-> observation]

\* step that asks the updater in the first step after reset as well
StepCallsAlwaysUpdating(first, updater, actor) == <<updater, actor>>

\* step, lines 104-109: _update_state unless last_action is None, then _act
StepCalls(first, updater, actor) ==
    IF first THEN <<actor>> ELSE <<updater, actor>>

\* __init__
ZipInit ==
    /\ max_steps \in 1..MaxSteps
    /\ current_step = 0
    /\ last_thought = << >>
    /\ last_action = NoAction
    /\ state = GetEmptyState
    /\ z_pc = "new"
    /\ z_exc = "none"
    /\ z_returned = 0
    /\ z_calls = << >>
    /\ z_prior = {}
    /\ z_obs = NoObs
    /\ z_msgs = << >>

\* reset(instruction) with an answer of `texts`; `failed`: the remote call
\* raised and chat returned ""
ZipReset(texts) ==
    /\ z_pc \in {"new", "ready"}
    /\ \E failed \in BOOLEAN, text \in texts :
        LET out == InitState(text, Instruction)
        IN  /\ failed => text = << >>
            /\ current_step' = 0
            /\ last_thought' = << >>
            /\ state' = out.state
            /\ z_calls' = <<Call("init", failed, ParseJson(text, GetEmptyState).ok)>>
            /\ z_exc' = out.exc
            /\ z_returned' = 0
            /\ z_prior' = {}
            /\ z_obs' = NoObs
            /\ z_msgs' = <<InitMessages(Instruction)>>
            /\ IF out.exc = "none"
                   THEN last_action' = NoAction /\ z_pc' = "ready"
               ELSE last_action' = last_action /\ z_pc' = "crashed"
            /\ UNCHANGED max_steps

\* step(observation) at the step limit: raise StopIteration
ZipStepLimit(observations) ==
    /\ z_pc = "ready"
    /\ IsStepLimitReached(current_step, max_steps)
    /\ z_exc' = "StopIteration"
    /\ z_pc' = "crashed"
    /\ z_calls' = << >>
    /\ z_msgs' = << >>
    /\ \E observation \in observations : z_obs' = observation
    /\ UNCHANGED <<max_steps, current_step, last_thought, last_action, state,
                   z_returned, z_prior>>

\* step(observation) below the limit, with answers of `utexts` to the updater
\* and of `atexts` to the actor: update the state unless this is the first
\* step, then let the actor decide
ZipStep(observations, utexts, atexts) ==
    /\ z_pc = "ready"
    /\ ~IsStepLimitReached(current_step, max_steps)
    /\ current_step' = current_step + 1
    /\ \E observation \in observations,
          ufailed \in BOOLEAN, utext \in utexts,
          afailed \in BOOLEAN, atext \in atexts :
        LET first == last_action.none
            tracked == TrackAttempted(state, last_action)
            asked == ~first /\ tracked.exc = "none"       \* updater was called
            upd == IF first THEN Outcome(state, "none")
                   ELSE UpdateState(state, last_action, utext)
            ucall == Call("updater", ufailed, ParseJson(utext, tracked.state).ok)
            umsg == UpdaterMessages(tracked.state, last_action.s, observation)
            r == Act(atext)
        IN  /\ ufailed => utext = << >>
            /\ afailed => atext = << >>
            /\ ~asked => (utext = << >> /\ ~ufailed)
            /\ state' = upd.state
            /\ z_exc' = upd.exc
            /\ z_obs' = observation
            /\ IF upd.exc = "none"
                   THEN /\ last_action' = SomeAction(r.action)
                        /\ last_thought' = r.thought
                        /\ z_calls' = StepCalls(first, ucall,
                                                Call("actor", afailed, FALSE))
                        /\ z_msgs' = StepCalls(first, umsg,
                                               ActorMessages(upd.state, observation))
                        /\ z_returned' = z_returned + 1
                        /\ z_prior' = z_prior \cup
                               (IF first \/ last_action.s = << >> THEN {}
                                ELSE {last_action.s})
                        /\ z_pc' = "ready"
               ELSE /\ atext = << >> /\ ~afailed
                    /\ z_calls' = IF asked THEN <<ucall>> ELSE << >>
                    /\ z_msgs' = IF asked THEN <<umsg>> ELSE << >>
                    /\ z_pc' = "crashed"
                    /\ UNCHANGED <<last_action, last_thought, z_returned, z_prior>>
    /\ UNCHANGED max_steps

-----------------------------------------------------------------------------
(* run.py: main and run_episode *)

\* BaseAgent.DEFAULT_MAX_STEPS
DEFAULT_MAX_STEPS == 50

\* what run_episode returned: (success, total_reward, step + 1)
NoResult == [ret |-> FALSE, success |-> FALSE, total_reward |-> 0, steps |-> 0]
Result(success, total, steps) ==
    [ret |-> TRUE, success |-> success, total_reward |-> total, steps |-> steps]

\* get_agent(args.agent, llm, environment=args.env, verbose=args.verbose):
\* max_steps is not handed on, so every agent class takes its default
GetAgentMaxSteps(args_max_steps) == DEFAULT_MAX_STEPS

\* rewards an environment hands out for one step
Rewards == {0, 1}

\* main up to the episode loop: the parsed arguments and the agent
RunInit ==
    /\ r_pc = "main"
    /\ r_args_max_steps \in 1..MaxArgSteps
    /\ r_episodes \in 1..MaxEpisodes
    /\ r_agent_kind \in Agents
    /\ r_agent_max = GetAgentMaxSteps(r_args_max_steps)
    /\ r_agent_step = 0
    /\ r_step = -1
    /\ r_done = FALSE
    /\ r_reward = 0
    /\ r_success = FALSE
    /\ r_total = 0
    /\ r_result = NoResult
    /\ r_logged = 0
    /\ r_exc = "none"
    /\ r_episode = 0

\* main calls run_episode: env.reset(), agent.reset(task), the locals
RunEpisodeStart ==
    /\ r_pc = "main"
    /\ r_episode < r_episodes
    /\ r_episode' = r_episode + 1
    /\ r_agent_step' = 0
    /\ r_step' = -1
    /\ r_done' = FALSE
    /\ r_reward' = 0
    /\ r_success' = FALSE
    /\ r_total' = 0
    /\ r_result' = NoResult
    /\ r_pc' = "loop"
    /\ UNCHANGED <<r_args_max_steps, r_episodes, r_agent_kind, r_agent_max,
                   r_logged, r_exc>>

\* one pass of `for step in range(max_steps)`: agent.step returns an action,
\* env.step executes it; `break` when done
RunLoopPass ==
    /\ r_pc = "loop"
    /\ r_step + 1 < r_args_max_steps
    /\ ~IsStepLimitReached(r_agent_step, r_agent_max)
    /\ r_step' = r_step + 1
    /\ r_agent_step' = r_agent_step + 1
    /\ \E reward \in Rewards, done \in BOOLEAN :
        /\ r_reward' = reward
        /\ r_done' = done
        /\ r_total' = r_total + reward
        /\ r_success' = IF done THEN reward > 0 ELSE r_success
        /\ r_pc' = IF done THEN "return" ELSE "loop"
    /\ UNCHANGED <<r_args_max_steps, r_episodes, r_episode, r_agent_kind,
                   r_agent_max, r_result, r_logged, r_exc>>

\* one pass of the loop in which agent.step raises StopIteration: nothing in
\* run_episode or main catches it
RunLoopRaise ==
    /\ r_pc = "loop"
    /\ r_step + 1 < r_args_max_steps
    /\ IsStepLimitReached(r_agent_step, r_agent_max)
    /\ r_step' = r_step + 1
    /\ r_exc' = "StopIteration"
    /\ r_pc' = "crashed"
    /\ UNCHANGED <<r_args_max_steps, r_episodes, r_episode, r_agent_kind,
                   r_agent_max, r_agent_step, r_done, r_reward, r_success,
                   r_total, r_result, r_logged>>

\* range(max_steps) is exhausted
RunLoopEnd ==
    /\ r_pc = "loop"
    /\ ~(r_step + 1 < r_args_max_steps)
    /\ r_pc' = "return"
    /\ UNCHANGED <<r_args_max_steps, r_episodes, r_episode, r_agent_kind,
                   r_agent_max, r_agent_step, r_step, r_done, r_reward,
                   r_success, r_total, r_result, r_logged, r_exc>>

\* `return success, total_reward, step + 1`, then main's logger.end_episode
RunReturn ==
    /\ r_pc = "return"
    /\ r_result' = Result(r_success, r_total, r_step + 1)
    /\ r_logged' = r_logged + 1
    /\ r_pc' = "main"
    /\ UNCHANGED <<r_args_max_steps, r_episodes, r_episode, r_agent_kind,
                   r_agent_max, r_agent_step, r_step, r_done, r_reward,
                   r_success, r_total, r_exc>>

-----------------------------------------------------------------------------
(* ReActAgent, ReflexionAgent, ObservationMaskingAgent, SummaryAgent *)

HistAgents == {"react", "reflexion", "obs_mask", "summary"}

\* self.environment of the agents of SpecHist
HistEnvironment == "alfworld"

\* observations handed to step, answers to the decision prompt, to the
\* summary prompt and to the reflection prompt (<< >> also stands for the ""
\* of a failed call)
HistObservations == {<<"o1">>, <<"o2">>}
HistTexts == {<< >>, <<TH, SP, "apple", NL, AC, SP, "pour">>}
SummaryTexts == {<< >>, <<SP, "back", SP>>}
ReflectionTexts == {<< >>, <<"back", NL>>}

\* a history item numbered by the steps completed before it
EntryNumberedFromZero(k, n, text) == [k |-> k, n |-> n - 1, s |-> text]

\* f"Observation {n}: {text}" and the like: one item of a history
Entry(k, n, text) == [k |-> k, n |-> n, s |-> text]

\* "[Observation masked]"
MaskText == <<"[Observation masked]">>

\* the user prompt of a decision call: the template filled with the
\* instruction and a history string made of a summary block, the joined
\* history items and a reflections block
Prompt(instruction, summary, lines, reflections) ==
    [instruction |-> instruction, summary |-> summary, lines |-> lines,
     reflections |-> reflections]
NoPrompt == Prompt(<< >>, << >>, << >>, << >>)

\* seq[-k:] for k > 0
LastItems(seq, k) == SubSeq(seq, Max({1, Len(seq) - k + 1}), Len(seq))

\* every reflection, however many there are
AllReflections(reflections) == reflections

\* ReflexionAgent.step, line 97: self.reflections[-3:]
RecentReflections(reflections) == LastItems(reflections, 3)

\* masking that also hides the oldest of the keep_recent observations
IsMaskedOneMore(i, len, keep) == i <= len - keep

\* ObservationMaskingAgent.step, line 84: the observation of index i (from 0)
\* is masked
IsMasked(i, len, keep) == i < len - keep

\* ObservationMaskingAgent.step, lines 80-95: the history items from step
\* number `from` on
RECURSIVE MaskedHistory(_, _, _, _, _)
MaskedHistory(observations, thoughts, actions, keep, from) ==
    IF from > Len(observations) THEN << >>
    ELSE <<Entry("Observation", from,
                 IF IsMasked(from - 1, Len(observations), keep)
                     THEN MaskText ELSE observations[from])>>
         \o (IF from - 1 < Len(thoughts)
                 THEN <<Entry("Thought", from, thoughts[from])>> ELSE << >>)
         \o (IF from - 1 < Len(actions)
                 THEN <<Entry("Action", from, actions[from])>> ELSE << >>)
         \o MaskedHistory(observations, thoughts, actions, keep, from + 1)

\* SummaryAgent.step, line 86: the history is to be summarized
ShouldSummarize(len, interval) ==
    len >= interval * 2 /\ len % (interval * 2) = 0

\* __init__ of one of the four classes
HistInit ==
    /\ h_kind \in HistAgents
    /\ h_max \in 1..MaxHistSteps
    /\ h_keep \in IF h_kind = "obs_mask" THEN 1..MaxKeep ELSE {0}
    /\ h_interval \in IF h_kind = "summary" THEN 1..MaxInterval ELSE {0}
    /\ h_step = 0
    /\ h_pc = "new"
    /\ h_instruction = << >>
    /\ h_last_thought = << >>
    /\ h_history = << >>
    /\ h_observations = << >>
    /\ h_thoughts = << >>
    /\ h_actions = << >>
    /\ h_summary = << >>
    /\ h_reflections = << >>
    /\ h_episode_count = 0
    /\ h_op = "init"
    /\ h_calls = << >>
    /\ h_prompt = NoPrompt
    /\ h_seen = << >>
    /\ h_sumsteps = {}

\* reset(instruction) of the four classes: the episode memory is emptied,
\* reflections are kept
HistReset ==
    /\ h_pc \in {"new", "ready"}
    /\ h_kind = "reflexion" => h_episode_count < MaxHistEpisodes
    /\ h_instruction' = Instruction
    /\ h_history' = << >>
    /\ h_observations' = << >>
    /\ h_thoughts' = << >>
    /\ h_actions' = << >>
    /\ h_summary' = << >>
    /\ h_last_thought' = << >>
    /\ h_step' = 0
    /\ h_episode_count' = IF h_kind = "reflexion" THEN h_episode_count + 1
                          ELSE h_episode_count
    /\ h_pc' = "ready"
    /\ h_op' = "reset"
    /\ h_calls' = << >>
    /\ h_prompt' = NoPrompt
    /\ h_seen' = << >>
    /\ h_sumsteps' = {}
    /\ UNCHANGED <<h_kind, h_max, h_keep, h_interval, h_reflections>>

\* step(observation) at the step limit: raise StopIteration
HistStepLimit ==
    /\ h_pc = "ready"
    /\ IsStepLimitReached(h_step, h_max)
    /\ h_pc' = "crashed"
    /\ h_op' = "step_limit"
    /\ h_calls' = << >>
    /\ h_prompt' = NoPrompt
    /\ UNCHANGED <<h_kind, h_max, h_step, h_instruction, h_last_thought,
                   h_history, h_observations, h_thoughts, h_actions, h_keep,
                   h_interval, h_summary, h_reflections, h_episode_count,
                   h_seen, h_sumsteps>>

\* what every step below the limit does besides its own memory: count the
\* step, keep the thought, and the record of the call
StepFrame(observation, r, calls, prompt) ==
    /\ h_step' = h_step + 1
    /\ h_last_thought' = r.thought
    /\ h_pc' = "ready"
    /\ h_op' = "step"
    /\ h_calls' = calls
    /\ h_prompt' = prompt
    /\ h_seen' = Append(h_seen, [observation |-> observation,
                                 thought |-> r.thought, action |-> r.action])
    /\ UNCHANGED <<h_kind, h_max, h_instruction, h_keep, h_interval,
                   h_reflections, h_episode_count>>

\* ReActAgent.step below the limit
ReactStep ==
    /\ h_pc = "ready" /\ h_kind = "react"
    /\ ~IsStepLimitReached(h_step, h_max)
    /\ \E observation \in HistObservations, text \in HistTexts :
        LET step_num == h_step + 1
            history == Append(h_history, Entry("Observation", step_num, observation))
            r == ParseThoughtAction("react", HistEnvironment, text)
        IN  /\ h_history' = history \o <<Entry("Thought", step_num, r.thought),
                                          Entry("Action", step_num, r.action)>>
            /\ StepFrame(observation, r, <<"decide">>,
                         Prompt(h_instruction, << >>, history, << >>))
    /\ UNCHANGED <<h_observations, h_thoughts, h_actions, h_summary, h_sumsteps>>

\* ReflexionAgent.step below the limit
ReflexionStep ==
    /\ h_pc = "ready" /\ h_kind = "reflexion"
    /\ ~IsStepLimitReached(h_step, h_max)
    /\ \E observation \in HistObservations, text \in HistTexts :
        LET step_num == h_step + 1
            history == Append(h_history, Entry("Observation", step_num, observation))
            r == ParseThoughtAction("reflexion", HistEnvironment, text)
        IN  /\ h_history' = history \o <<Entry("Thought", step_num, r.thought),
                                          Entry("Action", step_num, r.action)>>
            /\ StepFrame(observation, r, <<"decide">>,
                         Prompt(h_instruction, << >>, history,
                                RecentReflections(h_reflections)))
    /\ UNCHANGED <<h_observations, h_thoughts, h_actions, h_summary, h_sumsteps>>

\* ReflexionAgent.reflect(success, failure_reason)
Reflect ==
    /\ h_pc = "ready" /\ h_kind = "reflexion"
    /\ \E success \in BOOLEAN, text \in ReflectionTexts :
        IF success
            THEN /\ text = << >>
                 /\ h_calls' = << >>
                 /\ h_op' = "reflect_success"
                 /\ UNCHANGED h_reflections
        ELSE /\ Len(h_reflections) < MaxReflections
             /\ h_reflections' = Append(h_reflections, Strip(text))
             /\ h_calls' = <<"reflect">>
             /\ h_op' = "reflect_failure"
    /\ h_prompt' = NoPrompt
    /\ UNCHANGED <<h_kind, h_max, h_step, h_pc, h_instruction, h_last_thought,
                   h_history, h_observations, h_thoughts, h_actions, h_keep,
                   h_interval, h_summary, h_episode_count, h_seen, h_sumsteps>>

\* ObservationMaskingAgent.step below the limit
MaskStep ==
    /\ h_pc = "ready" /\ h_kind = "obs_mask"
    /\ ~IsStepLimitReached(h_step, h_max)
    /\ \E observation \in HistObservations, text \in HistTexts :
        LET observations == Append(h_observations, observation)
            r == ParseThoughtAction("obs_mask", HistEnvironment, text)
        IN  /\ h_observations' = observations
            /\ h_thoughts' = Append(h_thoughts, r.thought)
            /\ h_actions' = Append(h_actions, r.action)
            /\ StepFrame(observation, r, <<"decide">>,
                         Prompt(h_instruction, << >>,
                                MaskedHistory(observations, h_thoughts, h_actions,
                                              h_keep, 1),
                                << >>))
    /\ UNCHANGED <<h_history, h_summary, h_sumsteps>>

\* SummaryAgent.step below the limit, _summarize_history included
SummaryStep ==
    /\ h_pc = "ready" /\ h_kind = "summary"
    /\ ~IsStepLimitReached(h_step, h_max)
    /\ \E observation \in HistObservations, stext \in SummaryTexts,
          text \in HistTexts :
        LET step_num == h_step + 1
            appended == Append(h_history, Entry("Observation", step_num, observation))
            summarize == ShouldSummarize(Len(appended), h_interval)
            summary == IF summarize THEN Strip(stext) ELSE h_summary
            history == IF summarize THEN LastItems(appended, h_interval * 2)
                       ELSE appended
            prompt == IF summary # << >>
                          THEN Prompt(h_instruction, summary,
                                      LastItems(history, h_interval * 2), << >>)
                      ELSE Prompt(h_instruction, << >>, history, << >>)
            r == ParseThoughtAction("summary", HistEnvironment, text)
        IN  /\ ~summarize => stext = << >>
            /\ h_summary' = summary
            /\ h_history' = history \o <<Entry("Thought", step_num, r.thought),
                                          Entry("Action", step_num, r.action)>>
            /\ h_sumsteps' = IF summarize THEN h_sumsteps \cup {step_num}
                             ELSE h_sumsteps
            /\ StepFrame(observation, r,
                         IF summarize THEN <<"summarize", "decide">>
                         ELSE <<"decide">>,
                         prompt)
    /\ UNCHANGED <<h_observations, h_thoughts, h_actions>>

HistIdle ==
    /\ h_kind = ""
    /\ h_max = 0
    /\ h_step = 0
    /\ h_pc = "off"
    /\ h_instruction = << >>
    /\ h_last_thought = << >>
    /\ h_history = << >>
    /\ h_observations = << >>
    /\ h_thoughts = << >>
    /\ h_actions = << >>
    /\ h_keep = 0
    /\ h_interval = 0
    /\ h_summary = << >>
    /\ h_reflections = << >>
    /\ h_episode_count = 0
    /\ h_op = "init"
    /\ h_calls = << >>
    /\ h_prompt = NoPrompt
    /\ h_seen = << >>
    /\ h_sumsteps = {}

-----------------------------------------------------------------------------
(* ALFWorldSimpleEnv *)

\* TASK_DATA["locations"]
TaskLocations ==
    ("countertop 1" :> <<"creditcard 1", "potato 2">>)
    @@ ("countertop 2" :> <<"butterknife 1", "knife 1", "peppershaker 2",
            "spoon 1", "tomato 1", "vase 3", "vase 2">>)
    @@ ("countertop 3" :> <<"butterknife 3", "butterknife 2", "cellphone 2",
            "creditcard 2", "dishsponge 3", "glassbottle 3", "houseplant 1",
            "knife 3", "knife 2", "pan 2", "saltshaker 2", "soapbottle 3",
            "spoon 3", "statue 1", "tomato 2">>)
    @@ ("cabinet 1" :> <<"mug 3">>)
    @@ ("cabinet 2" :> << >>)
    @@ ("cabinet 3" :> <<"plate 1">>)
    @@ ("cabinet 4" :> <<"bowl 1">>)
    @@ ("cabinet 5" :> << >>)
    @@ ("cabinet 6" :> <<"soapbottle 1">>)
    @@ ("drawer 1" :> <<"fork 1">>)
    @@ ("drawer 2" :> <<"spoon 2">>)
    @@ ("drawer 3" :> << >>)
    @@ ("fridge 1" :> <<"apple 1", "lettuce 1", "mug 1", "tomato 3">>)
    @@ ("microwave 1" :> << >>)
    @@ ("coffeemachine 1" :> <<"mug 2">>)
    @@ ("shelf 1" :> <<"peppershaker 1">>)
    @@ ("shelf 2" :> <<"vase 1">>)
    @@ ("shelf 3" :> <<"statue 2">>)
    @@ ("sinkbasin 1" :> << >>)
    @@ ("garbagecan 1" :> << >>)
    @@ ("stoveburner 1" :> << >>)
    @@ ("stoveburner 2" :> << >>)
    @@ ("stoveburner 3" :> << >>)
    @@ ("stoveburner 4" :> <<"pot 1">>)
    @@ ("toaster 1" :> << >>)

\* TASK_DATA["needs_open"]
NeedsOpen ==
    {"fridge 1", "microwave 1", "cabinet 1", "cabinet 2", "cabinet 3", "cabinet 4", "cabinet 5", "cabinet 6"}

\* the task is "heat some mug and put it in cabinet."
IsMug(obj) == obj \in {"mug 1", "mug 2", "mug 3"}
IsCabinet(recep) ==
    recep \in {"cabinet 1", "cabinet 2", "cabinet 3", "cabinet 4", "cabinet 5",
               "cabinet 6"}

\* objects and receptacles the actions of SpecEnv name ("nowhere 1" is no
\* location of the room)
EnvObjects == {"mug 3", "potato 2"}
EnvReceptacles == {"cabinet 1", "countertop 1", "microwave 1", "nowhere 1"}

\* an action text as _execute_action reads it: the command and its groups
Command(verb, obj, recep) == [verb |-> verb, obj |-> obj, recep |-> recep]
EnvActions ==
    {Command("go to", "", r) : r \in EnvReceptacles}
    \cup {Command("take", o, r) : o \in EnvObjects, r \in EnvReceptacles}
    \cup {Command("put", o, r) : o \in EnvObjects, r \in EnvReceptacles}
    \cup {Command("open", "", r) : r \in EnvReceptacles}
    \cup {Command("close", "", r) : r \in EnvReceptacles}
    \cup {Command("heat", o, r) : o \in EnvObjects, r \in {"microwave 1", "cabinet 1"}}
    \cup {Command("cool", "mug 3", "fridge 1"), Command("clean", "mug 3", "sinkbasin 1"),
          Command("examine", "mug 3", ""), Command("look", "", "")}

\* list.remove(obj): the list without the first item equal to obj
Remove(list, obj) ==
    LET i == Min({k \in 1..Len(list) : list[k] = obj})
    IN  SubSeq(list, 1, i - 1) \o SubSeq(list, i + 1, Len(list))

Contains(list, obj) == \E k \in 1..Len(list) : list[k] = obj

\* a dict that is the class's own TASK_DATA["locations"]
ShareLocations(task_locations) == [shared |-> TRUE, map |-> task_locations]

\* reset, line 76: {k: list(v) for k, v in self.TASK_DATA["locations"].items()}
CopyLocations(task_locations) == [shared |-> FALSE, map |-> task_locations]

\* the fields of the environment that _execute_action reads and writes
World ==
    [locations |-> e_locations.map, current_location |-> e_current_location,
     inventory |-> e_inventory, heated |-> e_heated_objects,
     cooled |-> e_cooled_objects, cleaned |-> e_cleaned_objects,
     open |-> e_open_receptacles, done |-> e_done, success |-> e_success]

Closed(w, recep) == recep \in NeedsOpen /\ recep \notin w.open

\* _go_to
GoTo(w, location) ==
    IF location \notin DOMAIN w.locations THEN w
    ELSE [w EXCEPT !.current_location = location]

\* _take
Take(w, obj, recep) ==
    IF w.inventory # << >> THEN w
    ELSE IF recep \notin DOMAIN w.locations THEN w
    ELSE IF Closed(w, recep) THEN w
    ELSE IF Contains(w.locations[recep], obj)
        THEN [w EXCEPT !.locations[recep] = Remove(@, obj),
                       !.inventory = Append(@, obj)]
    ELSE w

\* _put, with the win condition: a heated mug put in a cabinet
Put(w, obj, recep) ==
    IF ~Contains(w.inventory, obj) THEN w
    ELSE IF recep \notin DOMAIN w.locations THEN w
    ELSE IF Closed(w, recep) THEN w
    ELSE LET won == IsMug(obj) /\ obj \in w.heated /\ IsCabinet(recep)
         IN  [w EXCEPT !.inventory = Remove(@, obj),
                       !.locations[recep] = Append(@, obj),
                       !.success = IF won THEN TRUE ELSE @,
                       !.done = IF won THEN TRUE ELSE @]

\* _open
Open(w, recep) ==
    IF recep \notin DOMAIN w.locations THEN w
    ELSE IF recep \notin NeedsOpen THEN w
    ELSE IF recep \in w.open THEN w
    ELSE [w EXCEPT !.open = @ \cup {recep}, !.current_location = recep]

\* _close
Close(w, recep) ==
    IF recep \notin NeedsOpen THEN w
    ELSE IF recep \notin w.open THEN w
    ELSE [w EXCEPT !.open = @ \ {recep}]

\* _heat: "microwave" in recep
Heat(w, obj, recep) ==
    IF ~Contains(w.inventory, obj) THEN w
    ELSE IF recep # "microwave 1" THEN w
    ELSE [w EXCEPT !.heated = @ \cup {obj}]

\* _cool: "fridge" in recep
Cool(w, obj, recep) ==
    IF ~Contains(w.inventory, obj) THEN w
    ELSE IF recep # "fridge 1" THEN w
    ELSE [w EXCEPT !.cooled = @ \cup {obj}]

\* _clean: "sinkbasin" in recep
Clean(w, obj, recep) ==
    IF ~Contains(w.inventory, obj) THEN w
    ELSE IF recep # "sinkbasin 1" THEN w
    ELSE [w EXCEPT !.cleaned = @ \cup {obj}]

\* _execute_action (_examine and an unknown command change nothing)
ExecuteAction(w, action) ==
    CASE action.verb = "go to" -> GoTo(w, action.recep)
      [] action.verb = "take" -> Take(w, action.obj, action.recep)
      [] action.verb = "put" -> Put(w, action.obj, action.recep)
      [] action.verb = "open" -> Open(w, action.recep)
      [] action.verb = "close" -> Close(w, action.recep)
      [] action.verb = "heat" -> Heat(w, action.obj, action.recep)
      [] action.verb = "cool" -> Cool(w, action.obj, action.recep)
      [] action.verb = "clean" -> Clean(w, action.obj, action.recep)
      [] OTHER -> w

\* nothing found by a reset yet
NoBefore == [step_count |-> 0, changed |-> FALSE, success |-> FALSE]

\* __init__: the fields and the reset() it ends with
EnvInit ==
    /\ e_max_steps \in 1..MaxEnvSteps
    /\ e_task_locations = TaskLocations
    /\ e_locations = CopyLocations(TaskLocations)
    /\ e_current_location = ""
    /\ e_inventory = << >>
    /\ e_heated_objects = {}
    /\ e_cooled_objects = {}
    /\ e_cleaned_objects = {}
    /\ e_open_receptacles = {}
    /\ e_step_count = 0
    /\ e_done = FALSE
    /\ e_success = FALSE
    /\ e_op = "reset"
    /\ e_reward = 0
    /\ e_before = NoBefore

\* reset()
EnvReset ==
    /\ e_current_location' = ""
    /\ e_inventory' = << >>
    /\ e_heated_objects' = {}
    /\ e_cooled_objects' = {}
    /\ e_cleaned_objects' = {}
    /\ e_open_receptacles' = {}
    /\ e_step_count' = 0
    /\ e_done' = FALSE
    /\ e_success' = FALSE
    /\ e_locations' = CopyLocations(e_task_locations)
    /\ e_op' = "reset"
    /\ e_before' = [step_count |-> e_step_count,
                    changed |-> e_locations.map # TaskLocations,
                    success |-> e_success]
    /\ UNCHANGED <<e_max_steps, e_task_locations, e_reward>>

\* step(action) when the step count reaches max_steps: "Episode timed out."
EnvTimeout ==
    /\ e_step_count < MaxEnvSteps
    /\ e_step_count + 1 >= e_max_steps
    /\ e_step_count' = e_step_count + 1
    /\ e_done' = TRUE
    /\ e_reward' = 0
    /\ e_op' = "step"
    /\ UNCHANGED <<e_max_steps, e_task_locations, e_locations,
                   e_current_location, e_inventory, e_heated_objects,
                   e_cooled_objects, e_cleaned_objects, e_open_receptacles,
                   e_success, e_before>>

\* step(action) below max_steps: the action is executed and the reward is
\* 1.0 if self.success else 0.0
EnvStep ==
    /\ e_step_count < MaxEnvSteps
    /\ ~(e_step_count + 1 >= e_max_steps)
    /\ e_step_count' = e_step_count + 1
    /\ \E action \in EnvActions :
        LET w == ExecuteAction(World, action)
        IN  /\ e_locations' = [e_locations EXCEPT !.map = w.locations]
            /\ e_task_locations' = IF e_locations.shared THEN w.locations
                                   ELSE e_task_locations
            /\ e_current_location' = w.current_location
            /\ e_inventory' = w.inventory
            /\ e_heated_objects' = w.heated
            /\ e_cooled_objects' = w.cooled
            /\ e_cleaned_objects' = w.cleaned
            /\ e_open_receptacles' = w.open
            /\ e_done' = w.done
            /\ e_success' = w.success
            /\ e_reward' = IF w.success THEN 1 ELSE 0
    /\ e_op' = "step"
    /\ UNCHANGED <<e_max_steps, e_before>>

EnvIdle ==
    /\ e_max_steps = 0
    /\ e_task_locations = << >>
    /\ e_locations = CopyLocations(<< >>)
    /\ e_current_location = ""
    /\ e_inventory = << >>
    /\ e_heated_objects = {}
    /\ e_cooled_objects = {}
    /\ e_cleaned_objects = {}
    /\ e_open_receptacles = {}
    /\ e_step_count = 0
    /\ e_done = FALSE
    /\ e_success = FALSE
    /\ e_op = "off"
    /\ e_reward = 0
    /\ e_before = NoBefore

-----------------------------------------------------------------------------
(* main, run_episode, Logger and LLMClient: the log file and the token counter *)

\* run.py, run_alfworld.py and run_experiment.py
Runners == {"run", "run_alfworld", "run_experiment"}

\* SummaryAgent.__init__: summary_interval: int = 10
DefaultSummaryInterval == 10

\* response.usage.prompt_tokens and completion_tokens of a successful call
PromptTokens == 2
CompletionTokens == 1

\* (args.max_steps, args.episodes)
LogConfigs ==
    ((1..MaxLogSteps) \X (1..MaxLogEpisodes)) \cup {<<DEFAULT_MAX_STEPS + 1, 1>>}

\* LLMClient.__init__: the counters
NoCounters == [total_input_tokens |-> 0, total_output_tokens |-> 0, call_count |-> 0]

\* the calls of `oks` that succeeded (TRUE: create() returned a response)
CountOk(oks) == Cardinality({i \in 1..Len(oks) : oks[i]})

\* LLMClient.chat, once per item of oks: call_count grows with every call,
\* the token totals only when create() has returned
ChatAll(c, oks) ==
    [total_input_tokens |-> c.total_input_tokens + PromptTokens * CountOk(oks),
     total_output_tokens |-> c.total_output_tokens + CompletionTokens * CountOk(oks),
     call_count |-> c.call_count + Len(oks)]

\* LLMClient.get_token_usage
GetTokenUsage(c) ==
    [input_tokens |-> c.total_input_tokens,
     output_tokens |-> c.total_output_tokens,
     total_tokens |-> c.total_input_tokens + c.total_output_tokens]

\* counters that main leaves as they are
KeepTokenCount(c) == c

\* LLMClient.reset_token_count
ResetTokenCount(c) ==
    [total_input_tokens |-> 0, total_output_tokens |-> 0, call_count |-> 0]

\* Logger.__init__: self.current_episode = None
NoEpisode ==
    [none |-> TRUE, episode_id |-> 0, steps |-> << >>, success |-> FALSE,
     num_steps |-> 0, token_usage |-> GetTokenUsage(NoCounters)]

\* Logger.start_episode (token_usage {} is written as the zero usage)
StartEpisode(episode_id) == [NoEpisode EXCEPT !.none = FALSE, !.episode_id = episode_id]

\* Logger.log_step
LogStep(episode, step_num) ==
    IF episode.none THEN episode
    ELSE [episode EXCEPT !.steps = Append(@, step_num)]

\* Logger.end_episode: the record written to the file
EndEpisode(episode, success, token_usage) ==
    [episode EXCEPT !.success = success, !.num_steps = Len(episode.steps),
                    !.token_usage = token_usage]

\* the llm calls one agent.step makes, in order
StepRoles(agent, first, summarize) ==
    CASE agent = "zipact" -> StepCalls(first, "updater", "actor")
      [] agent = "summary" ->
            IF summarize THEN <<"summarize", "decide">> ELSE <<"decide">>
      [] OTHER -> <<"decide">>

\* run_episode's tail in run_alfworld.py and run_experiment.py: the failed
\* episode of a ReflexionAgent is reflected on; run.py has no such call
ReflectRoles(runner, agent, success) ==
    IF runner \in {"run_alfworld", "run_experiment"} /\ agent = "reflexion"
           /\ ~success
        THEN <<"reflect">>
    ELSE << >>

\* x added to the last item of seq
AddToLast(seq, x) == [seq EXCEPT ![Len(seq)] = @ + x]

\* main up to the episode loop
LogInit ==
    /\ l_pc = "main"
    /\ l_runner \in Runners
    /\ l_agent \in Agents
    /\ \E config \in LogConfigs :
        /\ l_args_max_steps = config[1]
        /\ l_episodes = config[2]
    /\ l_episode = 0
    /\ l_step = -1
    /\ l_agent_step = 0
    /\ l_hist_len = 0
    /\ l_success = FALSE
    /\ l_exc = "none"
    /\ counters = NoCounters
    /\ current_episode = NoEpisode
    /\ log_file = << >>
    /\ l_ok = << >>
    /\ l_step_calls = << >>
    /\ l_reflections = 0

\* main calls run_episode: env.reset(), agent.reset(task), which for a
\* ZipActAgent asks the model for the initial state and raises on some
\* answers, then logger.start_episode and the locals
LogEpisodeStart ==
    /\ l_pc = "main"
    /\ l_episode < l_episodes
    /\ \E oks \in (IF l_agent = "zipact" THEN {<<TRUE>>, <<FALSE>>} ELSE {<< >>}),
          raised \in BOOLEAN :
        /\ raised => (l_agent = "zipact" /\ oks = <<TRUE>>)
        /\ counters' = ChatAll(counters, oks)
        /\ l_ok' = Append(l_ok, CountOk(oks))
        /\ l_step_calls' = Append(l_step_calls, 0)
        /\ l_episode' = l_episode + 1
        /\ l_agent_step' = 0
        /\ l_hist_len' = 0
        /\ IF raised
               THEN /\ l_pc' = "crashed"
                    /\ l_exc' = "AgentError"
                    /\ UNCHANGED <<current_episode, l_step, l_success>>
           ELSE /\ current_episode' = StartEpisode(l_episode + 1)
                /\ l_step' = -1
                /\ l_success' = FALSE
                /\ l_pc' = "loop"
                /\ UNCHANGED l_exc
    /\ UNCHANGED <<l_runner, l_agent, l_args_max_steps, l_episodes, log_file,
                   l_reflections>>

\* one pass of `for step in range(max_steps)`: agent.step with its llm calls,
\* logger.log_step(step + 1, ...), env.step; `break` when done
LogLoopPass ==
    /\ l_pc = "loop"
    /\ l_step + 1 < l_args_max_steps
    /\ ~IsStepLimitReached(l_agent_step, GetAgentMaxSteps(l_args_max_steps))
    /\ LET appended == l_hist_len + 1
           summarize == l_agent = "summary"
                            /\ ShouldSummarize(appended, DefaultSummaryInterval)
           roles == StepRoles(l_agent, l_agent_step = 0, summarize)
       IN  /\ \E oks \in [1..Len(roles) -> BOOLEAN] :
                /\ counters' = ChatAll(counters, oks)
                /\ l_ok' = AddToLast(l_ok, CountOk(oks))
           /\ l_hist_len' =
                IF l_agent # "summary" THEN 0
                ELSE (IF summarize
                          THEN Min({appended, DefaultSummaryInterval * 2})
                      ELSE appended) + 2
    /\ l_step_calls' = AddToLast(l_step_calls, 1)
    /\ l_step' = l_step + 1
    /\ l_agent_step' = l_agent_step + 1
    /\ current_episode' = LogStep(current_episode, l_step' + 1)
    /\ \E reward \in Rewards, done \in BOOLEAN :
        /\ l_success' = IF done THEN reward > 0 ELSE l_success
        /\ l_pc' = IF done THEN "return" ELSE "loop"
    /\ UNCHANGED <<l_runner, l_agent, l_args_max_steps, l_episodes, l_episode,
                   l_exc, log_file, l_reflections>>

\* one pass of the loop in which agent.step raises StopIteration: nothing in
\* run_episode or main catches it
LogLoopRaise ==
    /\ l_pc = "loop"
    /\ l_step + 1 < l_args_max_steps
    /\ IsStepLimitReached(l_agent_step, GetAgentMaxSteps(l_args_max_steps))
    /\ l_step' = l_step + 1
    /\ l_step_calls' = AddToLast(l_step_calls, 1)
    /\ l_exc' = "StopIteration"
    /\ l_pc' = "crashed"
    /\ UNCHANGED <<l_runner, l_agent, l_args_max_steps, l_episodes, l_episode,
                   l_agent_step, l_hist_len, l_success, counters,
                   current_episode, log_file, l_ok, l_reflections>>

\* one pass of the loop in which a ZipActAgent's _update_state raises, before
\* its updater call or on the answer to it
LogAgentRaise ==
    /\ l_pc = "loop"
    /\ l_step + 1 < l_args_max_steps
    /\ ~IsStepLimitReached(l_agent_step, GetAgentMaxSteps(l_args_max_steps))
    /\ l_agent = "zipact"
    /\ l_agent_step > 0
    /\ \E oks \in {<< >>, <<TRUE>>} :
        /\ counters' = ChatAll(counters, oks)
        /\ l_ok' = AddToLast(l_ok, CountOk(oks))
    /\ l_step' = l_step + 1
    /\ l_agent_step' = l_agent_step + 1
    /\ l_step_calls' = AddToLast(l_step_calls, 1)
    /\ l_exc' = "AgentError"
    /\ l_pc' = "crashed"
    /\ UNCHANGED <<l_runner, l_agent, l_args_max_steps, l_episodes, l_episode,
                   l_hist_len, l_success, current_episode, log_file,
                   l_reflections>>

\* range(max_steps) is exhausted
LogLoopEnd ==
    /\ l_pc = "loop"
    /\ ~(l_step + 1 < l_args_max_steps)
    /\ l_pc' = "return"
    /\ UNCHANGED <<l_runner, l_agent, l_args_max_steps, l_episodes, l_episode,
                   l_step, l_agent_step, l_hist_len, l_success, l_exc, counters,
                   current_episode, log_file, l_ok, l_step_calls,
                   l_reflections>>

\* the end of run_episode (with agent.reflect, which appends the answer to
\* agent.reflections, in run_alfworld.py and run_experiment.py) and main's
\* llm.get_token_usage(), logger.end_episode(...), llm.reset_token_count()
LogReturn ==
    /\ l_pc = "return"
    /\ \E oks \in [1..Len(ReflectRoles(l_runner, l_agent, l_success)) -> BOOLEAN] :
        LET counted == ChatAll(counters, oks)
        IN  /\ l_ok' = AddToLast(l_ok, CountOk(oks))
            /\ log_file' =
                 IF current_episode.none THEN log_file
                 ELSE Append(log_file,
                             EndEpisode(current_episode, l_success,
                                        GetTokenUsage(counted)))
            /\ counters' = ResetTokenCount(counted)
            /\ l_reflections' = l_reflections + Len(oks)
    /\ current_episode' = NoEpisode
    /\ l_pc' = "main"
    /\ UNCHANGED <<l_runner, l_agent, l_args_max_steps, l_episodes, l_episode,
                   l_step, l_agent_step, l_hist_len, l_success, l_exc,
                   l_step_calls>>

LogIdle ==
    /\ l_pc = "off"
    /\ l_runner = ""
    /\ l_agent = ""
    /\ l_args_max_steps = 0
    /\ l_episodes = 0
    /\ l_episode = 0
    /\ l_step = -1
    /\ l_agent_step = 0
    /\ l_hist_len = 0
    /\ l_success = FALSE
    /\ l_exc = "none"
    /\ counters = NoCounters
    /\ current_episode = NoEpisode
    /\ log_file = << >>
    /\ l_ok = << >>
    /\ l_step_calls = << >>
    /\ l_reflections = 0

ZipIdle ==
    /\ max_steps = 0
    /\ current_step = 0
    /\ last_thought = << >>
    /\ last_action = [none |-> TRUE, s |-> << >>]
    /\ state = GetEmptyState
    /\ z_pc = "off"
    /\ z_exc = "none"
    /\ z_returned = 0
    /\ z_calls = << >>
    /\ z_prior = {}
    /\ z_obs = NoObs
    /\ z_msgs = << >>

RunIdle ==
    /\ r_pc = "off"
    /\ r_args_max_steps = 0
    /\ r_agent_kind = ""
    /\ r_agent_max = 0
    /\ r_agent_step = 0
    /\ r_step = -1
    /\ r_done = FALSE
    /\ r_reward = 0
    /\ r_success = FALSE
    /\ r_total = 0
    /\ r_result = NoResult
    /\ r_logged = 0
    /\ r_exc = "none"
    /\ r_episodes = 0
    /\ r_episode = 0

ParseIdle ==
    /\ p_agent = ""
    /\ p_env = ""
    /\ p_text = << >>
    /\ p_thought = << >>
    /\ p_action = << >>
    /\ p_done = FALSE

JsonIdle ==
    /\ j_doc = JNone
    /\ j_text = << >>
    /\ j_result = [ok |-> FALSE, v |-> JNone]
    /\ j_done = FALSE

InitParse == ParseInit /\ ZipIdle /\ RunIdle /\ JsonIdle /\ HistIdle /\ LogIdle /\ EnvIdle

NextParse == ParseCall /\ UNCHANGED <<zvars, rvars, jvars, hvars, lvars, evars>>

SpecParse == InitParse /\ [][NextParse]_vars

Init == ZipInit /\ ParseIdle /\ RunIdle /\ JsonIdle /\ HistIdle /\ LogIdle /\ EnvIdle

Next ==
    \/ ZipReset(JsonTexts) /\ UNCHANGED <<pvars, rvars, jvars, hvars, lvars, evars>>
    \/ ZipStepLimit(OneObservation) /\ UNCHANGED <<pvars, rvars, jvars, hvars, lvars, evars>>
    \/ ZipStep(OneObservation, JsonTexts, ActorTexts) /\ UNCHANGED <<pvars, rvars, jvars, hvars, lvars, evars>>

Spec == Init /\ [][Next]_vars

\* SpecAct: the ZipActAgent with varying observations and fewer answers
NextAct ==
    \/ ZipReset(ActJsonTexts) /\ UNCHANGED <<pvars, rvars, jvars, hvars, lvars, evars>>
    \/ ZipStepLimit(Observations) /\ UNCHANGED <<pvars, rvars, jvars, hvars, lvars, evars>>
    \/ ZipStep(Observations, ActJsonTexts, ActActorTexts) /\ UNCHANGED <<pvars, rvars, jvars, hvars, lvars, evars>>

SpecAct == Init /\ [][NextAct]_vars

-----------------------------------------------------------------------------
(* Properties of the ZipActAgent state record (Spec) *)

IsPrefix(a, b) == Len(a) <= Len(b) /\ SubSeq(b, 1, Len(a)) = a
NoDuplicates(seq) == \A i, j \in 1..Len(seq) : seq[i] = seq[j] => i = j

\* the transition is a step call that got past the step limit
StepRan == z_pc = "ready" /\ current_step' = current_step + 1

\* the transition is a step call (one that ran or one that raised StopIteration)
StepCalled == z_pc = "ready" /\ (z_calls' = << >> \/ z_calls'[1].role # "init")

\* the last call was a step whose updater answer json.loads rejected
UpdaterUnparsed(calls) ==
    calls # << >> /\ calls[1].role = "updater" /\ ~calls[1].parsed

\* C1: attempted_actions is append-only across the steps of an episode: the
\* list before a step is a prefix of the list after it.
C1_AppendOnly ==
    [][StepRan => IsPrefix(AttemptedActions(state), AttemptedActions(state'))]_vars

\* C2: in every state reached by reset and steps, attempted_actions holds no
\* action more than once.
C2_NoDuplicates == z_pc = "ready" => NoDuplicates(AttemptedActions(state))

\* C3: once step k+1 has completed, every non-empty action returned by steps
\* 1..k is in attempted_actions.
C3_PriorActionsTracked ==
    (z_pc = "ready" /\ z_exc = "none")
        => \A a \in z_prior : InSeq(a, AttemptedActions(state))

\* C4 as claimed: when the updater's answer cannot be parsed, the state record
\* after the update equals the one before it.
C4_UnparsedKeepsState ==
    [][(StepRan /\ UpdaterUnparsed(z_calls')) => state' = state]_vars

\* C4 as amended: when the updater's answer cannot be parsed, the goal and
\* world groups and the constraint lists other than attempted_actions are
\* those before the update, and attempted_actions is the list before the
\* update (empty if it was missing) with the last action appended when that
\* action is non-empty and not yet in the list.
C4_UnparsedKeepsStateButTracks ==
    [][(StepRan /\ UpdaterUnparsed(z_calls')) =>
          /\ state'.t = state.t
          /\ state'.goal = state.goal
          /\ state'.world = state.world
          /\ state.cs.t # "absent" => state'.cs.v = state.cs.v
          /\ state.cs.t = "absent" => state'.cs.v \in {"", "empty"}
          /\ AttemptedActions(state') =
                IF last_action.s = << >> \/ InSeq(last_action.s, AttemptedActions(state))
                    THEN AttemptedActions(state)
                ELSE Append(AttemptedActions(state), last_action.s)]_vars

\* C4 witness: a step whose updater call failed outright has returned, and the
\* action of the step before it is the one entry of attempted_actions.
C4_Witness ==
    /\ z_pc = "ready" /\ z_exc = "none"
    /\ UpdaterUnparsed(z_calls) /\ z_calls[1].failed
    /\ z_prior # {}
    /\ Len(AttemptedActions(state)) = 1
    /\ AttemptedActions(state)[1] \in z_prior
    /\ state.goal.v = "g1"

\* C8: a step all of whose LLM calls failed returns the action "look" with an
\* empty thought, and raises nothing.
C8_FailedCallsGiveLook ==
    (/\ z_calls # << >>
     /\ z_calls[1].role # "init"
     /\ \A i \in 1..Len(z_calls) : z_calls[i].failed)
        => (/\ z_exc = "none"
            /\ last_action = SomeAction(<<"look">>)
            /\ last_thought = << >>)

\* C9 (counting part): after reset current_step is the number of step calls
\* that returned an action, and it never exceeds max_steps.
C9_CountsReturnedSteps ==
    z_pc # "new" => (current_step = z_returned /\ current_step <= max_steps)

\* C9 (step part): step raises StopIteration exactly when current_step >=
\* max_steps at the call, then makes no LLM call and changes no agent state;
\* otherwise it increments current_step by one.
C9_StepRaisesAtLimit ==
    [][StepCalled =>
          /\ (z_exc' = "StopIteration") <=> (current_step >= max_steps)
          /\ z_exc' = "StopIteration" =>
                (/\ z_calls' = << >>
                 /\ UNCHANGED <<max_steps, current_step, last_thought,
                                last_action, state>>)
          /\ z_exc' # "StopIteration" => current_step' = current_step + 1]_vars

\* C9: step raises StopIteration exactly at the limit without touching the
\* agent, otherwise increments current_step by one; hence current_step counts
\* the step calls that returned an action and never exceeds max_steps.
C9_StepLimit == []C9_CountsReturnedSteps /\ C9_StepRaisesAtLimit

\* C13: a step other than the first after reset that returns an action has made
\* exactly the updater call (with the tracked previous state, the last action
\* and the new observation) and then the actor call, whose prompt holds the
\* state the update left; the first step makes the actor call only; a step
\* that raises makes no actor call.
C13_UpdaterBeforeActor ==
    [][StepRan =>
          /\ last_action.none =>
                (/\ z_exc' = "none"
                 /\ Len(z_msgs') = 1
                 /\ z_msgs'[1].role = "actor"
                 /\ z_calls'[1].role = "actor")
          /\ (~last_action.none /\ z_exc' = "none") =>
                (/\ Len(z_msgs') = 2
                 /\ z_calls'[1].role = "updater" /\ z_calls'[2].role = "actor"
                 /\ z_msgs'[1].role = "updater"
                 /\ z_msgs'[1].state = TrackAttempted(state, last_action).state
                 /\ z_msgs'[1].last_action = last_action.s
                 /\ z_msgs'[1].observation = z_obs'
                 /\ z_msgs'[2].role = "actor"
                 /\ z_msgs'[2].state = state'
                 /\ z_msgs'[2].observation = z_obs')
          /\ z_exc' # "none" =>
                \A i \in 1..Len(z_msgs') : z_msgs'[i].role # "actor"]_vars

\* C13 witness: a later step has returned whose updater answer was parsed and
\* changed the state, and the actor was asked with the changed state.
C13_Witness ==
    /\ z_pc = "ready" /\ z_exc = "none"
    /\ Len(z_calls) = 2
    /\ z_calls[1].role = "updater" /\ z_calls[1].parsed
    /\ z_msgs[2].role = "actor"
    /\ z_msgs[2].state = state
    /\ z_msgs[1].state # state

\* C14: the messages of every actor call are made of the actor prompt, the
\* current state record and the current observation, and of nothing else.
C14_ActorSeesStateAndObservationOnly ==
    (z_msgs # << >> /\ z_msgs[Len(z_msgs)].role = "actor")
        => z_msgs[Len(z_msgs)] =
              [role |-> "actor", system |-> "actor_prompt", state |-> state,
               observation |-> z_obs]

\* C14 witness: the actor has been asked in a step that has two returned steps
\* with a non-empty thought and action behind it.
C14_Witness ==
    /\ z_pc = "ready" /\ z_exc = "none"
    /\ z_returned = 3
    /\ z_prior # {}
    /\ last_thought # << >>
    /\ z_msgs[Len(z_msgs)].role = "actor"
    /\ z_msgs[Len(z_msgs)].observation = "o2"

\* C19: when reset has been called, it has returned and goal_state of the
\* state holds a non-empty global_instruction, whatever the model answered.
C19_ResetSetsGlobalInstruction ==
    (z_calls # << >> /\ z_calls[1].role = "init")
        => (/\ z_exc = "none"
            /\ state.t = "dict"
            /\ state.goal.t = "dict"
            /\ state.goal.gi # << >>)

\* C22 (ZipActAgent): when reset has been called, current_step is 0, the last
\* thought is empty and last_action is None, whatever the agent did in the
\* episode before, so that the next step is a first step.
C22_ResetStartsClean ==
    (z_calls # << >> /\ z_calls[1].role = "init")
        => (/\ current_step = 0
            /\ last_thought = << >>
            /\ last_action = NoAction)

\* C25: no call of reset or step raises an exception other than StopIteration,
\* whatever the model answers; the agent stays usable unless the step limit
\* was reached.
C25_OnlyStopIteration ==
    /\ z_exc \in {"none", "StopIteration"}
    /\ z_pc = "crashed" => z_exc = "StopIteration"

-----------------------------------------------------------------------------
(* Properties of _parse_thought_action (SpecParse) *)

\* the trimmed lines the parser scans
ScannedLines(text) ==
    LET lines == Split(Strip(text))
    IN  [i \in 1..Len(lines) |-> Strip(lines[i])]

\* some line of the response starts (after trimming) with the prefix
HasLine(text, prefix) ==
    \E i \in 1..Len(ScannedLines(text)) : StartsWith(ScannedLines(text)[i], prefix)

\* the text after the prefix on the last line that carries it, trimmed
LastField(text, prefix) ==
    LET lines == ScannedLines(text)
        last == Max({i \in 1..Len(lines) : StartsWith(lines[i], prefix)})
    IN  Strip(Tail(lines[last]))

\* the command the vocabulary of environment env recovers from the text,
\* "look" when nothing matches
Recovered(env, text) ==
    LET m == IF env = "webshop" THEN SearchWebshop(text)
             ELSE IF env = "sciworld" THEN SearchVerbs(text, SciworldVerbs)
             ELSE SearchVerbs(text, AlfworldVerbs)
    IN  IF m.found THEN Strip(m.s) ELSE <<"look">>

\* C5: a response with neither a "Thought:" nor an "Action:" line gives the
\* whole trimmed response as thought and the command recovered by the verb
\* vocabulary of the agent's own environment as action.
C5_FallbackWithoutPrefixes ==
    (p_done /\ ~HasLine(p_text, TH) /\ ~HasLine(p_text, AC))
        => (p_thought = Strip(p_text) /\ p_action = Recovered(p_env, p_text))

\* C6: the action the parser returns is never empty.
C6_ActionNonEmpty == p_done => p_action # << >>

\* C7: with a "Thought:" line and an "Action:" line in the response, thought
\* and action are the trimmed texts after the prefixes of the last such lines.
C7_PrefixedLinesGiveFields ==
    (p_done /\ HasLine(p_text, TH) /\ HasLine(p_text, AC))
        => (p_thought = LastField(p_text, TH) /\ p_action = LastField(p_text, AC))

-----------------------------------------------------------------------------
(* SpecJson: _parse_json on the wrappings of an object *)

InitJson == JsonInit /\ ParseIdle /\ ZipIdle /\ RunIdle /\ HistIdle /\ LogIdle /\ EnvIdle

NextJson == JsonParseCall /\ UNCHANGED <<pvars, zvars, rvars, hvars, lvars, evars>>

SpecJson == InitJson /\ [][NextJson]_vars

-----------------------------------------------------------------------------
(* SpecHist: the agents that keep a history *)

InitHist == HistInit /\ ParseIdle /\ ZipIdle /\ RunIdle /\ JsonIdle /\ LogIdle /\ EnvIdle

NextHist ==
    \/ HistReset /\ UNCHANGED <<pvars, zvars, rvars, jvars, lvars, evars>>
    \/ HistStepLimit /\ UNCHANGED <<pvars, zvars, rvars, jvars, lvars, evars>>
    \/ ReactStep /\ UNCHANGED <<pvars, zvars, rvars, jvars, lvars, evars>>
    \/ ReflexionStep /\ UNCHANGED <<pvars, zvars, rvars, jvars, lvars, evars>>
    \/ Reflect /\ UNCHANGED <<pvars, zvars, rvars, jvars, lvars, evars>>
    \/ MaskStep /\ UNCHANGED <<pvars, zvars, rvars, jvars, lvars, evars>>
    \/ SummaryStep /\ UNCHANGED <<pvars, zvars, rvars, jvars, lvars, evars>>

SpecHist == InitHist /\ [][NextHist]_vars

\* the items "Observation n", "Thought n", "Action n" of the steps 1..Len(seen),
\* in this order, each with the text the step saw or returned
TranscriptOf(seen) ==
    [i \in 1..(3 * Len(seen)) |->
        LET n == (i + 2) \div 3
            m == i - 3 * (n - 1)
        IN  CASE m = 1 -> [k |-> "Observation", n |-> n, s |-> seen[n].observation]
              [] m = 2 -> [k |-> "Thought", n |-> n, s |-> seen[n].thought]
              [] OTHER -> [k |-> "Action", n |-> n, s |-> seen[n].action]]

\* C15: after k steps of an episode the history of a ReActAgent is the 3k
\* items Observation 1, Thought 1, Action 1, ..., Action k, and the prompt of
\* step k held the items of steps 1..k-1 followed by Observation k.
C15_ReactFullTranscript ==
    (h_kind = "react" /\ h_pc = "ready") =>
        /\ Len(h_history) = 3 * h_step
        /\ h_history = TranscriptOf(h_seen)
        /\ h_op = "step" =>
              /\ h_prompt.lines = SubSeq(TranscriptOf(h_seen), 1, 3 * (h_step - 1) + 1)
              /\ h_prompt.summary = << >>
              /\ h_prompt.reflections = << >>

\* C15 witness: a ReActAgent has made three steps of an episode with two
\* different observations and a non-empty thought.
C15_Witness ==
    /\ h_kind = "react" /\ h_pc = "ready" /\ h_op = "step"
    /\ h_step = 3
    /\ Len(h_prompt.lines) = 7
    /\ h_seen[1].observation # h_seen[2].observation
    /\ h_seen[2].thought # << >>

\* C16: the prompt an ObservationMaskingAgent builds at step n holds, in step
\* order, the observations of steps 1..n, those of the last keep_recent steps
\* verbatim and the older ones as the mask text, and after each observation
\* but the last the thought and action of its step, unmasked.
C16_MaskKeepsRecent ==
    (h_kind = "obs_mask" /\ h_pc = "ready" /\ h_op = "step") =>
        LET n == h_step
        IN  /\ Len(h_seen) = n
            /\ Len(h_prompt.lines) = 3 * (n - 1) + 1
            /\ \A i \in 1..n :
                  /\ h_prompt.lines[3 * (i - 1) + 1] =
                        [k |-> "Observation", n |-> i,
                         s |-> IF i > n - h_keep THEN h_seen[i].observation
                               ELSE <<"[Observation masked]">>]
                  /\ i < n =>
                        /\ h_prompt.lines[3 * (i - 1) + 2] =
                              [k |-> "Thought", n |-> i, s |-> h_seen[i].thought]
                        /\ h_prompt.lines[3 * (i - 1) + 3] =
                              [k |-> "Action", n |-> i, s |-> h_seen[i].action]

\* C16 witness: at step 4 with keep_recent = 2 the prompt masks the first two
\* observations and shows the last two.
C16_Witness ==
    /\ h_kind = "obs_mask" /\ h_pc = "ready" /\ h_op = "step"
    /\ h_step = 4 /\ h_keep = 2
    /\ h_prompt.lines[4].s = <<"[Observation masked]">>
    /\ h_prompt.lines[7].s = h_seen[3].observation
    /\ h_prompt.lines[10].s = h_seen[4].observation
    /\ h_prompt.lines[5].s # << >>

\* C17: with summary_interval = N the steps of an episode in which a
\* SummaryAgent has called the summarizer are the steps N, 2N, 3N, ...
C17_SummarizesEveryN ==
    (h_kind = "summary" /\ h_pc = "ready") =>
        h_sumsteps = {n \in 1..h_step : n % h_interval = 0}

\* C18: reflections of a ReflexionAgent only grow: no call removes or changes
\* one, reset and step add none, reflect(success=True) adds none and makes no
\* LLM call, reflect(success=False) makes one call and appends one reflection,
\* and the prompt of a step holds the three most recent ones (all of them
\* when there are fewer).
C18_ReflectionsOnlyGrow ==
    [][h_kind = "reflexion" =>
          /\ IsPrefix(h_reflections, h_reflections')
          /\ h_op' \in {"reset", "step", "step_limit"} =>
                h_reflections' = h_reflections
          /\ h_op' = "reflect_success" =>
                (h_reflections' = h_reflections /\ h_calls' = << >>)
          /\ h_op' = "reflect_failure" =>
                (/\ Len(h_reflections') = Len(h_reflections) + 1
                 /\ h_calls' = <<"reflect">>)
          /\ h_op' = "step" =>
                LET shown == h_prompt'.reflections
                    n == Len(h_reflections)
                IN  /\ Len(shown) = Min({3, n})
                    /\ \A i \in 1..Len(shown) :
                          shown[i] = h_reflections[n - Len(shown) + i]]_vars

\* C18 witness: a ReflexionAgent in its second episode holds four reflections,
\* an empty and a non-empty one among them, and its last step showed three.
C18_Witness ==
    /\ h_kind = "reflexion" /\ h_pc = "ready" /\ h_op = "step"
    /\ h_episode_count = 2
    /\ Len(h_reflections) = 4
    /\ h_reflections[1] # h_reflections[2]
    /\ Len(h_prompt.reflections) = 3

-----------------------------------------------------------------------------
(* SpecRun: run.py from the parsed arguments on *)

InitRun == RunInit /\ ParseIdle /\ ZipIdle /\ JsonIdle /\ HistIdle /\ LogIdle /\ EnvIdle

NextRun ==
    \/ RunEpisodeStart /\ UNCHANGED <<pvars, zvars, jvars, hvars, lvars, evars>>
    \/ RunLoopPass /\ UNCHANGED <<pvars, zvars, jvars, hvars, lvars, evars>>
    \/ RunLoopRaise /\ UNCHANGED <<pvars, zvars, jvars, hvars, lvars, evars>>
    \/ RunLoopEnd /\ UNCHANGED <<pvars, zvars, jvars, hvars, lvars, evars>>
    \/ RunReturn /\ UNCHANGED <<pvars, zvars, jvars, hvars, lvars, evars>>

SpecRun == InitRun /\ [][NextRun]_vars

\* C10: for every agent kind and every --max_steps >= 1, run_episode ends when
\* the environment reports done or after max_steps agent steps, and returns
\* (success, total_reward, steps) to main, which logs the episode: no
\* exception leaves it, and a returned episode was ended by done or by
\* max_steps steps and has been logged.
C10_EpisodeEndsAndReturns ==
    /\ r_exc = "none"
    /\ r_pc # "crashed"
    /\ (r_pc = "main" /\ r_result.ret) =>
          /\ r_done \/ r_result.steps = r_args_max_steps
          /\ r_agent_step = r_result.steps
          /\ r_logged = r_episode

-----------------------------------------------------------------------------
(* Properties of the log file and the token counter (SpecLog) *)

InitLog == LogInit /\ ParseIdle /\ ZipIdle /\ RunIdle /\ JsonIdle /\ HistIdle /\ EnvIdle

NextLog ==
    \/ LogEpisodeStart /\ UNCHANGED <<pvars, zvars, rvars, jvars, hvars, evars>>
    \/ LogLoopPass /\ UNCHANGED <<pvars, zvars, rvars, jvars, hvars, evars>>
    \/ LogLoopRaise /\ UNCHANGED <<pvars, zvars, rvars, jvars, hvars, evars>>
    \/ LogAgentRaise /\ UNCHANGED <<pvars, zvars, rvars, jvars, hvars, evars>>
    \/ LogLoopEnd /\ UNCHANGED <<pvars, zvars, rvars, jvars, hvars, evars>>
    \/ LogReturn /\ UNCHANGED <<pvars, zvars, rvars, jvars, hvars, evars>>

SpecLog == InitLog /\ [][NextLog]_vars

\* C11: every episode the runner has started and is no longer running has
\* exactly one record in the JSONL file, the records are in episode order, the
\* steps of a record are numbered 1..k where k is the number of agent.step
\* calls of its episode, and its num_steps is k.
C11_EveryEpisodeLogged ==
    /\ Len(log_file) = IF l_pc \in {"loop", "return"} THEN l_episode - 1
                       ELSE l_episode
    /\ \A i \in 1..Len(log_file) :
          /\ log_file[i].episode_id = i
          /\ log_file[i].steps = [n \in 1..l_step_calls[i] |-> n]
          /\ log_file[i].num_steps = l_step_calls[i]

\* C12: the token_usage of the record of episode i is the usage of the llm
\* calls that succeeded between the start of episode i and its end_episode,
\* and whenever main is between episodes the input, output and call counters
\* are zero.
C12_TokenUsagePerEpisode ==
    /\ \A i \in 1..Len(log_file) :
          log_file[i].token_usage =
              [input_tokens |-> PromptTokens * l_ok[i],
               output_tokens |-> CompletionTokens * l_ok[i],
               total_tokens |-> (PromptTokens + CompletionTokens) * l_ok[i]]
    /\ l_pc = "main" =>
          /\ counters.total_input_tokens = 0
          /\ counters.total_output_tokens = 0
          /\ counters.call_count = 0

\* C12 witness: run_alfworld.py has ended two episodes of a ReflexionAgent;
\* the first failed after one step and its usage counts the step's call and
\* the reflection, the second made one successful call.
C12_Witness ==
    /\ l_pc = "main" /\ l_runner = "run_alfworld" /\ l_agent = "reflexion"
    /\ Len(log_file) = 2
    /\ log_file[1].num_steps = 1 /\ ~log_file[1].success
    /\ log_file[1].token_usage.total_tokens = 2 * (PromptTokens + CompletionTokens)
    /\ log_file[2].token_usage.total_tokens = PromptTokens + CompletionTokens
    /\ counters = NoCounters

\* the episodes that have ended without success
FailedEpisodes == {i \in 1..Len(log_file) : ~log_file[i].success}

\* C24: under every runner, whenever main is between episodes a
\* ReflexionAgent holds one reflection for each episode that ended without
\* success.
C24_ReflectsOnEveryFailure ==
    (l_agent = "reflexion" /\ l_pc = "main")
        => l_reflections = Cardinality(FailedEpisodes)

-----------------------------------------------------------------------------
(* Properties of ALFWorldSimpleEnv (SpecEnv) *)

InitEnv ==
    EnvInit /\ ParseIdle /\ ZipIdle /\ RunIdle /\ JsonIdle /\ HistIdle /\ LogIdle

NextEnv ==
    \/ EnvReset /\ UNCHANGED <<pvars, zvars, rvars, jvars, hvars, lvars>>
    \/ EnvTimeout /\ UNCHANGED <<pvars, zvars, rvars, jvars, hvars, lvars>>
    \/ EnvStep /\ UNCHANGED <<pvars, zvars, rvars, jvars, hvars, lvars>>

SpecEnv == InitEnv /\ [][NextEnv]_vars

\* C21: the reward a step call has returned is 1.0 exactly when the success
\* flag of the environment is true on return.
C21_RewardIffSuccess ==
    e_op = "step" => ((e_reward = 1) <=> e_success)

\* C23: after reset the world is that of a freshly constructed environment
\* (locations, inventory, heated, cooled and cleaned objects, open
\* receptacles, step count, done, success), whatever was done before, and the
\* class's TASK_DATA locations are never changed.
C23_ResetRestoresWorld ==
    /\ e_task_locations = TaskLocations
    /\ e_op = "reset" =>
          /\ e_locations.map = TaskLocations
          /\ e_current_location = ""
          /\ e_inventory = << >>
          /\ e_heated_objects = {}
          /\ e_cooled_objects = {}
          /\ e_cleaned_objects = {}
          /\ e_open_receptacles = {}
          /\ e_step_count = 0
          /\ ~e_done
          /\ ~e_success

\* C23 witness: a reset has been made in a world where the heated mug had
\* been put in the cabinet and the task had succeeded.
C23_Witness ==
    /\ e_op = "reset"
    /\ e_before.success
    /\ e_before.changed
    /\ e_before.step_count >= 4
    /\ e_locations.map = TaskLocations

====
